---- MODULE Spec2Model ----
(***************************************************************************)
(* A model of the Metorial Python Lambda boot layer                        *)
(* (src/python-lambda-build-image): the programmable promise and the four  *)
(* configuration slots (boot/promise.py, boot/config.py), the provider     *)
(* loader and the action handlers (boot/boot.py), the OAuth adapter        *)
(* (boot/oauth.py), the in-process bridge cache (boot/client.py) and the   *)
(* Lambda entry point (index.py).                                          *)
(***************************************************************************)
EXTENDS Integers, Sequences, FiniteSets, TLC

VARIABLES
  current_oauth,        \* config.current_oauth  : ProgrammablePromise
  current_server,       \* config.current_server : ProgrammablePromise
  current_hook,         \* config.current_hook   : ProgrammablePromise
  current_args,         \* config.current_args   : ProgrammablePromise
  epoch,                \* history: number of reset_all() calls so far
  user_module,          \* environment: what the file at METORIAL_ENTRYPOINT does
  user_module_loaded,   \* boot._user_module_loaded
  builtins_server,      \* builtins.__metorial_server__ (None when unset)
  builtins_handlers,    \* builtins.__metorial_handlers__ ({} when unset)
  pc,                   \* position of the invocation lambda_handler is running
  event,                \* the event of that invocation
  idx,                  \* handle_mcp_request: messages of the batch consumed
  responses,            \* handle_mcp_request: the local list `responses`
  calls,                \* history: provider handlers invoked in this invocation
  args_read,            \* history: what get_args() gives provider code in this invocation
  hook_script,          \* environment: what the provider's hooks do when this invocation calls them
  result,               \* what the invocation returned (NoResult before), or raised
  clients,              \* client._clients      : identity -> session
  client_tasks,         \* client._client_tasks : identity -> task
  gc,                   \* per get_client call: its position and locals
  made,                 \* history: sessions created so far, per identity
  tasks,                \* the background tasks started, per identity: the state of each
  shaken,               \* history: the sessions whose initialize() has completed
  exec_count,           \* history: times load_user_server has run exec_module
  loads,                \* history: load_user_server calls so far (MaxLoads: or more)
  tools,                \* ServerWrapper._tools     : name -> {options, handler}
  resources,            \* ServerWrapper._resources : name -> {template, options, handler}
  prompts,              \* ServerWrapper._prompts   : name -> {options, handler}
  reg_out,              \* what the last ServerWrapper query returned or raised
  reg_calls,            \* history: handlers that query invoked, in order
  reg_log,              \* history: the register_* calls so far, in order
  pending               \* the decorators register_* has returned, not applied yet

cfgVars    == <<current_oauth, current_server, current_hook, current_args, epoch>>
bootVars   == <<user_module, user_module_loaded, builtins_server, builtins_handlers,
                exec_count, loads>>
invVars    == <<pc, event, idx, responses, calls, args_read, hook_script, result>>
bridgeVars == <<clients, client_tasks, gc, made, tasks, shaken>>
regVars    == <<tools, resources, prompts, reg_out, reg_calls, reg_log, pending>>
vars       == <<cfgVars, bootVars, invVars, bridgeVars, regVars>>

(***************************************************************************)
(* Bounds of the model.                                                    *)
(***************************************************************************)
MaxBatch     == 2    \* longest batch of handle_mcp_request under SpecBatch
MaxEpoch     == 2    \* reset_all() calls under SpecConfig
MaxMade      == 2    \* sessions created per identity (bridge)
MaxCallers   == 2    \* concurrent get_client calls under SpecBridge
MaxExec      == 2    \* executions of a user module that keeps raising
MaxLoads     == 2    \* load_user_server calls counted apart
MaxRegs      == 3    \* register_* calls under SpecRegistry
MaxFails     == 1    \* background tasks that fail, per identity

(***************************************************************************)
(* Python values.                                                          *)
(***************************************************************************)
None     == "None"
Unset    == "Unset"        \* an attribute or key that is absent
EmptyMap == "{}"           \* the empty mapping {}
ArgObjs  == {"A1", "A2"}   \* two distinct non-empty configuration mappings

(***************************************************************************)
(* boot/promise.py                                                         *)
(***************************************************************************)
NewPromise == [value |-> None, resolved |-> FALSE]

resolve(p, v) == [value |-> v, resolved |-> TRUE]

\* ProgrammablePromise defines no __await__: it is not an awaitable, in any
\* state.
IsAwaitable(p) == FALSE

(***************************************************************************)
(* Exceptions and result objects.                                          *)
(***************************************************************************)
Exc(type, msg) == [type |-> type, msg |-> msg]

McpCodes == {-32602}

\* mcp.shared.exceptions.McpError: a structured protocol error.
McpError(code) == [type |-> "McpError", msg |-> "invalid", code |-> code, data |-> "d"]

NoResult == [none |-> TRUE]

Returned(v) == [raised |-> FALSE, value |-> v]

Raised(e) == [raised |-> TRUE, exc |-> e]

\* {"success": False, "error": {"code": ..., "message": str(e) + traceback}}
Failure(code, e) == [success |-> FALSE, error |-> [code |-> code, message |-> e.msg]]

(***************************************************************************)
(* boot/config.py                                                          *)
(***************************************************************************)
set_mcp_auth(v) == current_oauth' = resolve(current_oauth, v)

get_mcp_auth == current_oauth

set_server(v) == current_server' = resolve(current_server, v)

set_callback_handler(v) == current_hook' = resolve(current_hook, v)

get_callback_handler == current_hook

set_args(v) == current_args' = resolve(current_args, v)

get_args_of(p) == IF p.value # None THEN p.value ELSE EmptyMap

get_args == get_args_of(current_args)

\* A reset that installs fresh hook and server slots and keeps the arguments.
reset_all_keeps_args ==
  /\ current_oauth'  = NewPromise
  /\ current_server' = NewPromise
  /\ current_hook'   = NewPromise
  /\ current_args'   = current_args

reset_all ==
  /\ current_oauth'  = NewPromise
  /\ current_server' = NewPromise
  /\ current_hook'   = NewPromise
  /\ current_args'   = NewPromise

(***************************************************************************)
(* The provider: what executing the user's module does (the environment of *)
(* load_user_server).  exec: "ok" the module runs to its end, "raises" it  *)
(* raises before registering anything, "nospec" no module spec is found    *)
(* for the entry point.  server: the module leaves                         *)
(* builtins.__metorial_server__ set (and calls create_server); handlers:   *)
(* the keys of builtins.__metorial_handlers__; oauth / callbacks: the hook *)
(* set it registers, None when it registers none.                          *)
(***************************************************************************)
ListHandlers == {"list_tools", "list_resources", "list_prompts"}
CallHandlers == {"call_tool", "read_resource", "get_prompt"}
HandlerNames == ListHandlers \cup CallHandlers

OAuthHandlers    == {"OA", "OA+form", "OA+refresh", "OA+form+refresh"}
CallbackHandlers == {"CB", "CB+install", "CB+poll", "CB+install+poll"}

Module(x, s, h, o, c) ==
  [exec |-> x, server |-> s, handlers |-> h, oauth |-> o, callbacks |-> c]

HandlerTables == {{}, {"list_tools", "call_tool"}, HandlerNames}

BrokenModules ==
  {Module("raises", FALSE, {}, None, None), Module("nospec", FALSE, {}, None, None),
   Module("ok", FALSE, {}, None, None)}

\* Providers for the dispatcher: a server and one of the handler tables.
BatchModules == {Module("ok", TRUE, h, None, None) : h \in HandlerTables}

\* Providers for the process: without and with hook sets, and broken ones.
ProcModules ==
  BrokenModules \cup
  {Module("ok", TRUE, HandlerNames, None, None),
   Module("ok", TRUE, {"list_tools", "call_tool"}, None, None),
   Module("ok", TRUE, HandlerNames, "OA+form", "CB+install"),
   Module("ok", TRUE, HandlerNames, "OA", "CB+poll")}

(***************************************************************************)
(* boot/boot.py: load_user_server                                          *)
(***************************************************************************)
\* A loader that remembers a module that raised and does not run it again.
ModuleRaises_once ==
  ~user_module_loaded /\ user_module.exec = "raises" /\ exec_count = 0

\* A loader that does not look at _user_module_loaded.
ModuleRuns_every_time == user_module.exec = "ok"

ModuleRuns == ~user_module_loaded /\ user_module.exec = "ok"

ModuleRaises == ~user_module_loaded /\ user_module.exec = "raises"

ServerAfterLoad ==
  IF ModuleRuns /\ user_module.server THEN "srv" ELSE builtins_server

\* What load_user_server raises (type "none": it returns).
LoadError ==
  IF ModuleRaises THEN Exc("ImportError", "module failed")
  ELSE IF ServerAfterLoad = None THEN Exc("RuntimeError", "No MCP server found")
  ELSE Exc("none", "")

load_user_server(args) ==
  /\ ModuleRaises => exec_count < MaxExec
  /\ set_args(args)
  /\ user_module_loaded' = (user_module_loaded \/ ModuleRuns)
  /\ builtins_server' = ServerAfterLoad
  /\ builtins_handlers' = IF ModuleRuns THEN user_module.handlers ELSE builtins_handlers
  /\ current_server' = IF ModuleRuns /\ user_module.server
                       THEN resolve(current_server, "srv") ELSE current_server
  /\ current_oauth' = IF ModuleRuns /\ user_module.oauth # None
                      THEN resolve(current_oauth, user_module.oauth) ELSE current_oauth
  /\ current_hook' = IF ModuleRuns /\ user_module.callbacks # None
                     THEN resolve(current_hook, user_module.callbacks) ELSE current_hook
  /\ exec_count' = IF ModuleRuns \/ ModuleRaises THEN exec_count + 1 ELSE exec_count
  /\ loads' = IF loads < MaxLoads THEN loads + 1 ELSE loads
  /\ UNCHANGED <<epoch, user_module>>

(***************************************************************************)
(* Protocol messages.  A raw message of a batch is an object or a JSON     *)
(* text (enc); it is, or decodes to, a JSON object, or a JSON value that   *)
(* is no object, or, a text only, it is no JSON at all (kind).             *)
(***************************************************************************)
ListMethods == {"tools/list", "resources/list", "prompts/list"}
CallMethods == {"tools/call", "resources/read", "prompts/get"}
Methods     == {"initialize", "ping"} \cup ListMethods \cup CallMethods
AnyMethods  == Methods \cup {"x/unknown", None}
Ids         == {1, 2}

Obj(enc, hasId, id, method) ==
  [enc |-> enc, kind |-> "object", hasId |-> hasId, id |-> id, method |-> method,
   param |-> IF method \in CallMethods THEN "p1" ELSE Unset]

Request(id, method)  == Obj("obj", TRUE, id, method)
Notification(method) == Obj("obj", FALSE, 0, method)
NonObject(enc) == [enc |-> enc, kind |-> "nonobject", hasId |-> FALSE, id |-> 0,
                   method |-> None, param |-> Unset]
Garbage == [enc |-> "text", kind |-> "garbage", hasId |-> FALSE, id |-> 0,
            method |-> None, param |-> Unset]

BatchMessages ==
  {Request(i, m) : i \in Ids, m \in AnyMethods}
    \cup {Notification(m) : m \in AnyMethods}
    \cup {Obj("text", TRUE, 1, "ping"), Obj("text", TRUE, 1, "tools/call"),
          Obj("text", FALSE, 0, "tools/call")}
    \cup {NonObject("obj"), NonObject("text"), Garbage}

\* The batches of the request events of the process specification.
ProcBatches ==
  {<<>>, <<Request(1, "tools/call")>>, <<Garbage>>,
   <<Notification("ping"), Request(2, "ping")>>}

SeqsUpTo(S, n) == UNION {[1..k -> S] : k \in 0..n}

\* json.loads(message_raw) if isinstance(message_raw, str) else message_raw
DecodeRaises(raw) == raw.enc = "text" /\ raw.kind = "garbage"

Decode(raw) == [raw EXCEPT !.enc = "obj"]

HandlerOf(method) ==
  CASE method = "tools/list"     -> "list_tools"
    [] method = "tools/call"     -> "call_tool"
    [] method = "resources/list" -> "list_resources"
    [] method = "resources/read" -> "read_resource"
    [] method = "prompts/list"   -> "list_prompts"
    [] method = "prompts/get"    -> "get_prompt"
    [] OTHER                     -> None

(***************************************************************************)
(* What the provider does when the dispatcher calls it for a request (the  *)
(* handler's behaviour is the environment's choice): "ok" it returns a     *)
(* non-empty result, "empty" a falsy one, "raise" it raises an exception,  *)
(* "raise_mcp" it raises a structured protocol error; "none": the          *)
(* dispatcher calls nothing.                                               *)
(***************************************************************************)
Outcomes(handlers, m) ==
  IF m.kind # "object" \/ ~m.hasId THEN {"none"}
  ELSE IF m.method = "initialize" THEN {"ok", "raise"}
  ELSE IF m.method \in ListMethods /\ HandlerOf(m.method) \in handlers
       THEN {"ok", "empty", "raise", "raise_mcp"}
  ELSE IF m.method \in CallMethods /\ HandlerOf(m.method) \in handlers
       THEN {"ok", "raise", "raise_mcp"}
  ELSE {"none"}

Raises(o) == o \in {"raise", "raise_mcp"}

ExcOf(o) == IF o = "raise_mcp" THEN McpError(CHOOSE c \in McpCodes : TRUE)
            ELSE Exc("ValueError", "boom")

MethodNotFound == -32601
InternalError  == -32603

ResultReply(id, of, val) ==
  [jsonrpc |-> "2.0", id |-> id, result |-> [of |-> of, val |-> val]]

\* boot.py 280-290: every exception is answered with the fixed code.
ErrorReply(id, e) ==
  [jsonrpc |-> "2.0", id |-> id,
   error |-> [code |-> InternalError, message |-> e.msg, data |-> "traceback"]]

NotFoundReply(id, method) ==
  [jsonrpc |-> "2.0", id |-> id,
   error |-> [code |-> MethodNotFound, message |-> "Method not found: " \o method]]

\* boot.py 156-290 for a decoded object m carrying an id: the entry appended
\* to `responses`, the provider's outcome being o.
Reply(handlers, m, o) ==
  IF Raises(o) THEN ErrorReply(m.id, ExcOf(o))
  ELSE IF m.method = "initialize" THEN ResultReply(m.id, "initialize", "caps")
  ELSE IF m.method \in ListMethods THEN
    ResultReply(m.id, HandlerOf(m.method), IF o = "ok" THEN "L" ELSE "[]")
  ELSE IF m.method \in CallMethods THEN
    IF HandlerOf(m.method) \in handlers
    THEN ResultReply(m.id, HandlerOf(m.method), "R")
    ELSE ErrorReply(m.id, Exc("ValueError", "handler not registered"))
  ELSE IF m.method = "ping" THEN ResultReply(m.id, "ping", "{}")
  ELSE NotFoundReply(m.id, m.method)

\* The provider handler the dispatcher invokes for m, as an entry of `calls`:
\* the handler, its argument, what it did (o) and the place in `responses` of
\* the reply to m (at).
CallsOf(handlers, m, o, at) ==
  IF m.kind = "object" /\ m.hasId /\ HandlerOf(m.method) \in handlers
  THEN <<[op |-> HandlerOf(m.method), param |-> m.param, out |-> o, at |-> at]>>
  ELSE <<>>

(***************************************************************************)
(* Events.  args: Unset when the event has no 'args', a mapping, or (for   *)
(* the request actions, which decode it) a JSON text.                      *)
(***************************************************************************)
TextArgs == {"txt:{}", "txt:A1", "txt:bad"}

JsonLoadsRaises(a) == a = "txt:bad"

JsonLoads(a) == IF a = "txt:A1" THEN "A1" ELSE EmptyMap

Event(action, args, messages, sub, events) ==
  [action |-> action, args |-> args, messages |-> messages, sub |-> sub,
   events |-> events]

NoEvent == Event(None, Unset, <<>>, Unset, <<>>)

McpActions == {"mcp.request", "mcp.batch"}

McpEvents(actions, argss, batches) ==
  {Event(a, g, b, Unset, <<>>) : a \in actions, g \in argss, b \in batches}

BatchEvents == McpEvents({"mcp.request"}, {"A1"}, SeqsUpTo(BatchMessages, MaxBatch))

ProcArgs == {Unset, "A1", "A2"}

OAuthActions    == {"get", "authorization-url", "authorization-form", "callback",
                    "refresh", "bogus"}
CallbackActions == {"get", "handle", "install", "poll", "bogus"}

ProcEvents ==
  McpEvents({"mcp.request"}, ProcArgs, ProcBatches)
    \cup McpEvents(McpActions, {"txt:A1", "txt:bad"}, {<<>>})
    \cup {Event("discover", g, <<>>, Unset, <<>>) : g \in ProcArgs}
    \cup {Event("oauth", "A1", <<>>, a, <<>>) : a \in OAuthActions}
    \cup {Event("callbacks", "A1", <<>>, a, <<>>) : a \in CallbackActions}
    \cup {Event("callbacks", Unset, <<>>, "handle", es) :
            es \in {<<"e1", "e2">>, <<"e1", "no mapping", "e2">>}}
    \cup {Event("callbacks", Unset, <<>>, "poll", <<>>) @@ [state |-> "A"]}
    \cup {Event(a, "A1", <<>>, Unset, <<>>) : a \in {"bogus", None}}

(***************************************************************************)
(* index.py: lambda_handler.  asyncio.get_event_loop() may raise (no       *)
(* current loop): loopOk is the environment's choice.  The handler run by  *)
(* run_until_complete returns a value or raises.                           *)
(***************************************************************************)
\* lambda_handler without its own except clause.
lambda_try_no_except(out) == IF out.raised THEN out ELSE out.value

lambda_try(out) ==
  IF out.raised THEN Failure("handler_error", out.exc) ELSE out.value

UnknownAction(action) ==
  [success |-> FALSE,
   error |-> [code |-> "unknown_action", message |-> "Unknown action: " \o action]]

LoopError == Raised(Exc("RuntimeError", "no current event loop"))

CanInvoke == pc \in {"idle", "returned"}

\* What the hooks of the provider do when an invocation calls them: the
\* events for which the primary callback hook raises, the values the poll
\* hook passes to its setter, in order, and what the poll hook returns (a
\* list, a single non-empty value that is no list, an empty one); fails: an
\* OAuth hook or the install hook raises.
HookScript(r, ss, o, f) == [raises |-> r, sets |-> ss, out |-> o, fails |-> f]

NoScript == HookScript({}, <<>>, "list", FALSE)

HookScripts ==
  {NoScript, HookScript({"e1"}, <<"B">>, "item", FALSE),
   HookScript({}, <<"B", "C">>, "empty", FALSE), HookScript({}, <<>>, "list", TRUE)}

\* An invocation that ends in this step with the result r, the hooks cs
\* having been called; no batch loop.
FinishWith(e, r, cs, hk) ==
  /\ event' = e
  /\ result' = r
  /\ pc' = "returned"
  /\ idx' = 0
  /\ responses' = <<>>
  /\ calls' = cs
  /\ hook_script' = hk

Finish(e, r) == FinishWith(e, r, <<>>, NoScript)

\* The event loop cannot be had: lambda_handler's own except answers.
LambdaNoLoop(e) ==
  /\ CanInvoke
  /\ e.action \in McpActions \cup {"discover", "oauth", "callbacks"}
  /\ Finish(e, lambda_try(LoopError))
  /\ args_read' = {}
  /\ UNCHANGED <<cfgVars, bootVars, bridgeVars, regVars>>

LambdaUnknown(e) ==
  /\ CanInvoke
  /\ e.action \notin McpActions \cup {"discover", "oauth", "callbacks"}
  /\ Finish(e, lambda_try(Returned(UnknownAction(e.action))))
  /\ args_read' = {}
  /\ UNCHANGED <<cfgVars, bootVars, bridgeVars, regVars>>

(***************************************************************************)
(* boot/boot.py: handle_mcp_request, one step per message of the batch.    *)
(***************************************************************************)
mcp_catch(e) == Returned(Failure("mcp_error", e))

McpArgsRaw(e) == IF e.args = Unset THEN "txt:{}" ELSE e.args

McpArgs(e) == IF McpArgsRaw(e) \in TextArgs THEN JsonLoads(McpArgsRaw(e)) ELSE McpArgsRaw(e)

\* args is no JSON: raised before load_user_server, nothing is stored.
McpBadArgs(e) ==
  /\ CanInvoke
  /\ e.action \in McpActions
  /\ McpArgsRaw(e) \in TextArgs /\ JsonLoadsRaises(McpArgsRaw(e))
  /\ Finish(e, lambda_try(mcp_catch(Exc("JSONDecodeError", "bad args"))))
  /\ args_read' = {}
  /\ UNCHANGED <<cfgVars, bootVars, bridgeVars, regVars>>

McpBegin(e) ==
  /\ CanInvoke
  /\ e.action \in McpActions
  /\ ~(McpArgsRaw(e) \in TextArgs /\ JsonLoadsRaises(McpArgsRaw(e)))
  /\ load_user_server(McpArgs(e))
  /\ event' = e
  /\ idx' = 0
  /\ responses' = <<>>
  /\ calls' = <<>>
  /\ hook_script' = NoScript
  /\ IF LoadError.type # "none"
     THEN /\ result' = lambda_try(mcp_catch(LoadError))
          /\ pc' = "returned"
          /\ args_read' = {}
     ELSE /\ result' = NoResult
          /\ pc' = "loop"
          /\ args_read' = {get_args_of(current_args')}
  /\ UNCHANGED <<bridgeVars, regVars>>

CurrentRaw == event.messages[idx + 1]

InLoop == pc = "loop" /\ idx < Len(event.messages)

\* boot.py 154: json.loads is outside the inner try, so its exception goes to
\* the outer except; boot.py 157 and 284: message.get on a value that is no
\* object raises AttributeError inside the inner try and again inside its
\* except block, so that one goes to the outer except too.
Aborts(raw) == DecodeRaises(raw) \/ Decode(raw).kind # "object"

AbortError(raw) ==
  IF DecodeRaises(raw) THEN Exc("JSONDecodeError", "bad message")
  ELSE Exc("AttributeError", "no attribute get")

McpAbort ==
  /\ InLoop
  /\ Aborts(CurrentRaw)
  /\ result' = lambda_try(mcp_catch(AbortError(CurrentRaw)))
  /\ pc' = "returned"
  /\ UNCHANGED <<event, idx, responses, calls, args_read, hook_script>>
  /\ UNCHANGED <<cfgVars, bootVars, bridgeVars, regVars>>

\* boot.py 160-161: a message without 'id' is skipped.
McpSkip ==
  /\ InLoop
  /\ ~Aborts(CurrentRaw)
  /\ ~Decode(CurrentRaw).hasId
  /\ idx' = idx + 1
  /\ UNCHANGED <<pc, event, responses, calls, args_read, hook_script, result>>
  /\ UNCHANGED <<cfgVars, bootVars, bridgeVars, regVars>>

McpReply(o) ==
  /\ InLoop
  /\ ~Aborts(CurrentRaw)
  /\ Decode(CurrentRaw).hasId
  /\ o \in Outcomes(builtins_handlers, Decode(CurrentRaw))
  /\ responses' = Append(responses, Reply(builtins_handlers, Decode(CurrentRaw), o))
  /\ calls' = calls \o CallsOf(builtins_handlers, Decode(CurrentRaw), o, Len(responses) + 1)
  /\ args_read' = args_read \cup
       (IF HandlerOf(Decode(CurrentRaw).method) \in builtins_handlers
        THEN {get_args} ELSE {})
  /\ idx' = idx + 1
  /\ UNCHANGED <<pc, event, hook_script, result>>
  /\ UNCHANGED <<cfgVars, bootVars, bridgeVars, regVars>>

\* boot.py 292-297: after the settling delay the batch is returned.
McpReturn ==
  /\ pc = "loop"
  /\ idx = Len(event.messages)
  /\ result' = lambda_try(Returned([success |-> TRUE, responses |-> responses]))
  /\ pc' = "returned"
  /\ UNCHANGED <<event, idx, responses, calls, args_read, hook_script>>
  /\ UNCHANGED <<cfgVars, bootVars, bridgeVars, regVars>>

(***************************************************************************)
(* boot/boot.py: handle_discover                                           *)
(***************************************************************************)
\* handle_discover without its except clause.
discover_catch_none(out) == out

discover_catch(out) ==
  IF out.raised THEN Returned(Failure("discovery_error", out.exc)) ELSE out

\* A list operation returns a non-empty list, an empty result, a non-empty
\* value that is no list, or raises.
ListOutcomes == {"ok", "empty", "nonlist", "raise"}

\* What the three list operations and get_capabilities do in one discovery:
\* at most one of the four does something else than return its value.
DiscoverOutcomes ==
  {x \in [lo : [ListHandlers -> ListOutcomes], cap : {"ok", "raise"}] :
     Cardinality({h \in ListHandlers : x.lo[h] # "ok"})
       + (IF x.cap = "raise" THEN 1 ELSE 0) <= 1}

\* The body of handle_discover after a successful load: lo[h] is what the
\* list operation h does when it is in the handler table, cap what
\* server.get_capabilities does.
DiscoverBody(handlers, lo, cap) ==
  IF (\E h \in ListHandlers \cap handlers : lo[h] = "raise") \/ cap = "raise"
  THEN Raised(Exc("ValueError", "boom"))
  ELSE Returned(
    [success |-> TRUE,
     discovery |->
       [tools |-> IF "list_tools" \in handlers /\ lo["list_tools"] = "ok"
                  THEN "L" ELSE "[]",
        resourceTemplates |->
                  IF "list_resources" \in handlers /\ lo["list_resources"] = "ok"
                  THEN "L" ELSE "[]",
        prompts |-> IF "list_prompts" \in handlers /\ lo["list_prompts"] = "ok"
                  THEN "L" ELSE "[]",
        capabilities |-> "caps", implementation |-> "impl", instructions |-> None]])

\* boot.py 98-111: the order in which the list operations are called.
ListOrder == <<"list_tools", "list_resources", "list_prompts">>

\* The list operations handle_discover calls, from the i-th of ListOrder on.
RECURSIVE DiscoverCalls(_, _, _)
DiscoverCalls(handlers, lo, i) ==
  IF i > Len(ListOrder) THEN <<>>
  ELSE IF ListOrder[i] \notin handlers THEN DiscoverCalls(handlers, lo, i + 1)
  ELSE <<[op |-> ListOrder[i], out |-> lo[ListOrder[i]]]>> \o
       (IF lo[ListOrder[i]] = "raise" THEN <<>> ELSE DiscoverCalls(handlers, lo, i + 1))

DiscoverArgs(e) == IF e.args = Unset THEN EmptyMap ELSE e.args

\* A hook action that loads the provider with the arguments of its event.
HookActionArgs_of_event(e) == DiscoverArgs(e)

\* boot.py 310, 344: handle_oauth_action and handle_callbacks_action call
\* load_user_server({}), whatever the event carries.
HookActionArgs(e) == EmptyMap

HandlersAfterLoad == IF ModuleRuns THEN user_module.handlers ELSE builtins_handlers

Discover(e, lo, cap) ==
  /\ CanInvoke
  /\ e.action = "discover"
  /\ load_user_server(DiscoverArgs(e))
  /\ FinishWith(e,
       lambda_try(discover_catch(
         IF LoadError.type # "none" THEN Raised(LoadError)
         ELSE DiscoverBody(HandlersAfterLoad, lo, cap))),
       IF LoadError.type # "none" THEN <<>> ELSE DiscoverCalls(HandlersAfterLoad, lo, 1),
       [lo |-> lo, cap |-> cap])
  /\ args_read' = IF LoadError.type # "none" THEN {} ELSE {get_args_of(current_args')}
  /\ UNCHANGED <<bridgeVars, regVars>>

(***************************************************************************)
(* boot/oauth.py                                                           *)
(***************************************************************************)
\* asyncio.wait_for(x, timeout): x must be awaitable (TypeError otherwise);
\* it gives x's value, or raises TimeoutError when x does not complete.
wait_for(p) ==
  IF ~IsAwaitable(p) THEN Raised(Exc("TypeError", "an awaitable is required"))
  ELSE IF p.resolved THEN Returned(p.value)
  ELSE Raised(Exc("TimeoutError", ""))

\* get_oauth: only asyncio.TimeoutError is turned into None.
get_oauth(p) ==
  IF wait_for(p).raised /\ wait_for(p).exc.type = "TimeoutError"
  THEN Returned(None) ELSE wait_for(p)

HasForm(h)    == h \in {"OA+form", "OA+form+refresh"}
HasRefresh(h) == h \in {"OA+refresh", "OA+form+refresh"}

handle_oauth_get(p) ==
  IF get_oauth(p).raised THEN get_oauth(p)
  ELSE IF get_oauth(p).value = None
       THEN Returned([enabled |-> FALSE, hasForm |-> FALSE])
       ELSE Returned([enabled |-> TRUE, hasForm |-> HasForm(get_oauth(p).value)])

\* The four operations that call a hook: with is the set of hook sets that
\* have the sub-hook the operation needs, hk is what the hook does when called.
OAuthCall(p, with, error, hk, key) ==
  IF get_oauth(p).raised THEN get_oauth(p)
  ELSE IF get_oauth(p).value = None \/ get_oauth(p).value \notin with
       THEN Raised(Exc("ValueError", error))
  ELSE IF hk = "raise" THEN Raised(Exc("ValueError", "hook failed"))
  ELSE Returned([of |-> key, val |-> "hook result"])

WithForm    == {h \in OAuthHandlers : HasForm(h)}
WithRefresh == {h \in OAuthHandlers : HasRefresh(h)}

oauth_dispatch(p, sub, hk) ==
  CASE sub = "get" -> handle_oauth_get(p)
    [] sub = "authorization-url" ->
         OAuthCall(p, OAuthHandlers, "OAuth not configured", hk, "authorizationUrl")
    [] sub = "authorization-form" ->
         OAuthCall(p, WithForm, "OAuth form not available", hk, "authForm")
    [] sub = "callback" ->
         OAuthCall(p, OAuthHandlers, "OAuth not configured", hk, "authData")
    [] sub = "refresh" ->
         OAuthCall(p, WithRefresh, "OAuth refresh not supported", hk, "authData")
    [] OTHER -> Raised(Exc("ValueError", "Unknown OAuth action"))

\* The sub-hook an operation calls, and the hook sets that have it.
OAuthHookOf(sub) ==
  CASE sub = "authorization-url"  -> [op |-> "get_authorization_url", with |-> OAuthHandlers]
    [] sub = "authorization-form" -> [op |-> "get_auth_form", with |-> WithForm]
    [] sub = "callback"           -> [op |-> "handle_callback", with |-> OAuthHandlers]
    [] sub = "refresh"            -> [op |-> "refresh_access_token", with |-> WithRefresh]
    [] OTHER                      -> [op |-> None, with |-> {}]

\* The hooks the operation calls, with what each is given.
OAuthHookCalls(p, sub) ==
  IF ~get_oauth(p).raised /\ get_oauth(p).value \in OAuthHookOf(sub).with
  THEN <<[op |-> OAuthHookOf(sub).op, arg |-> "input"]>>
  ELSE <<>>

oauth_catch(out) ==
  IF out.raised THEN Returned(Failure("oauth_error", out.exc))
  ELSE Returned([success |-> TRUE, oauth |-> out.value])

OAuthAfterLoad ==
  IF ModuleRuns /\ user_module.oauth # None
  THEN resolve(current_oauth, user_module.oauth) ELSE current_oauth

\* boot.py 308-340: handle_oauth_action
OAuthAction(e, hk) ==
  /\ CanInvoke
  /\ e.action = "oauth"
  /\ load_user_server(HookActionArgs(e))
  /\ FinishWith(e,
       lambda_try(oauth_catch(
         IF LoadError.type # "none" THEN Raised(LoadError)
         ELSE oauth_dispatch(OAuthAfterLoad, e.sub, hk))),
       IF LoadError.type # "none" THEN <<>> ELSE OAuthHookCalls(OAuthAfterLoad, e.sub),
       [NoScript EXCEPT !.fails = (hk = "raise")])
  /\ args_read' = IF LoadError.type # "none" THEN {} ELSE {get_args_of(current_args')}
  /\ UNCHANGED <<bridgeVars, regVars>>

(***************************************************************************)
(* boot/callbacks.py.  get_callbacks() returns what                         *)
(* config.get_callback_handler() returns: the promise object itself, not   *)
(* the hook set stored in it.  A value the adapter holds is the promise     *)
(* (kind "promise") or a hook set (kind "handler").                         *)
(***************************************************************************)
PromiseAttrs == {"promise", "resolve", "reject", "value", "resolved"}

AttrError(attr) ==
  IF attr \in PromiseAttrs THEN Exc("none", "")
  ELSE Exc("AttributeError", "no such attribute")

HasInstall(h) == h \in {"CB+install", "CB+install+poll"}
HasPoll(h)    == h \in {"CB+poll", "CB+install+poll"}

\* callbacks.py 31-33 with config.py 31-33 and promise.py 13-16
get_callbacks(p) == [kind |-> "promise", value |-> p.value, resolved |-> p.resolved]

\* `not callbacks`: a ProgrammablePromise defines neither __bool__ nor
\* __len__, so it is true in every state; None is false.
Not(cb) == cb.kind # "promise" /\ cb.value = None

\* Reading the attribute attr of cb raises AttributeError.
AttrRaises(cb, attr) == cb.kind = "promise" /\ AttrError(attr).type # "none"

\* callbacks.py 35-47
handle_callbacks_get(cb) ==
  IF Not(cb) THEN Returned([enabled |-> FALSE])
  ELSE IF AttrRaises(cb, "install_hook") THEN Raised(AttrError("install_hook"))
  ELSE Returned([enabled |-> TRUE,
                 type |-> IF HasInstall(cb.value) THEN "webhook"
                          ELSE IF HasPoll(cb.value) THEN "polling" ELSE "manual"])

\* An inbound event is a mapping with an 'eventId' (named by that id here),
\* or a value that is no mapping.
InboundEvents == {"e1", "e2", "e3"}
IsMapping(ev) == ev \in InboundEvents

\* callbacks.py 59-76: the record of one event that is a mapping.
CallbackRecord(cb, ev, hk) ==
  IF AttrRaises(cb, "handle_hook")
  THEN [success |-> FALSE, eventId |-> ev, error |-> AttrError("handle_hook").msg]
  ELSE IF ev \in hk.raises
  THEN [success |-> FALSE, eventId |-> ev, error |-> "hook failed"]
  ELSE [success |-> TRUE, eventId |-> ev, result |-> "hook result of " \o ev]

\* handle_callbacks_handle: one record per event.  For an event that is no
\* mapping event.get raises inside the per-event try and again inside its
\* except block: that exception leaves the loop.
CallbackRecords(cb, events, hk) ==
  [i \in 1..Len(events) |-> CallbackRecord(cb, events[i], hk)]

\* callbacks.py 49-78
handle_callbacks_handle(cb, events, hk) ==
  IF Not(cb) THEN Raised(Exc("ValueError", "Callbacks not configured"))
  ELSE IF \E i \in 1..Len(events) : ~IsMapping(events[i])
       THEN Raised(Exc("AttributeError", "no attribute get"))
  ELSE Returned([results |-> CallbackRecords(cb, events, hk)])

\* The events before the first one that is no mapping.
RECURSIVE HandledPrefix(_)
HandledPrefix(events) ==
  IF events = <<>> \/ ~IsMapping(Head(events)) THEN <<>>
  ELSE <<Head(events)>> \o HandledPrefix(Tail(events))

\* callbacks.py 80-87
handle_callbacks_install(cb, hk) ==
  IF Not(cb) THEN Raised(Exc("ValueError", "Callback installation not supported"))
  ELSE IF AttrRaises(cb, "install_hook") THEN Raised(AttrError("install_hook"))
  ELSE IF ~HasInstall(cb.value)
       THEN Raised(Exc("ValueError", "Callback installation not supported"))
  ELSE IF hk.fails THEN Raised(Exc("ValueError", "hook failed"))
  ELSE Returned(EmptyMap)

\* callbacks.py 109-110: a result that is no list is wrapped or dropped.
PollEvents(out) ==
  CASE out = "list"  -> <<"ev1", "ev2">>
    [] out = "item"  -> <<"item">>
    [] OTHER         -> <<>>

\* callbacks.py 98-101, 112: state_ref["current"] after the hook has run.
NewState(state, sets) == IF sets = <<>> THEN state ELSE sets[Len(sets)]

\* callbacks.py 89-112
handle_callbacks_poll(cb, state, hk) ==
  IF Not(cb) THEN Raised(Exc("ValueError", "Callback polling not supported"))
  ELSE IF AttrRaises(cb, "poll_hook") THEN Raised(AttrError("poll_hook"))
  ELSE IF ~HasPoll(cb.value)
       THEN Raised(Exc("ValueError", "Callback polling not supported"))
  ELSE IF hk.fails THEN Raised(Exc("ValueError", "hook failed"))
  ELSE Returned([events |-> PollEvents(hk.out), newState |-> NewState(state, hk.sets)])

\* callback_input.get("state")
InputState(e) == IF "state" \in DOMAIN e THEN e.state ELSE None

callbacks_dispatch(cb, e, hk) ==
  CASE e.sub = "get"     -> handle_callbacks_get(cb)
    [] e.sub = "handle"  -> handle_callbacks_handle(cb, e.events, hk)
    [] e.sub = "install" -> handle_callbacks_install(cb, hk)
    [] e.sub = "poll"    -> handle_callbacks_poll(cb, InputState(e), hk)
    [] OTHER -> Raised(Exc("ValueError", "Unknown callback action"))

\* The hooks the operation calls, in order, with what each is given.
CallbackHookCalls(cb, e, hk) ==
  CASE e.sub = "handle" /\ ~Not(cb) /\ ~AttrRaises(cb, "handle_hook") ->
         [i \in 1..Len(HandledPrefix(e.events)) |->
            [op |-> "handle_hook", arg |-> e.events[i]]]
    [] e.sub = "install" /\ ~Not(cb) /\ ~AttrRaises(cb, "install_hook")
         /\ HasInstall(cb.value) -> <<[op |-> "install_hook", arg |-> "input"]>>
    [] e.sub = "poll" /\ ~Not(cb) /\ ~AttrRaises(cb, "poll_hook")
         /\ HasPoll(cb.value) -> <<[op |-> "poll_hook", arg |-> InputState(e)]>>
    [] OTHER -> <<>>

callbacks_catch(out) ==
  IF out.raised THEN Returned(Failure("callback_error", out.exc))
  ELSE Returned([success |-> TRUE, callbacks |-> out.value])

HookAfterLoad ==
  IF ModuleRuns /\ user_module.callbacks # None
  THEN resolve(current_hook, user_module.callbacks) ELSE current_hook

\* boot.py 342-371: handle_callbacks_action
CallbacksAction(e, hk) ==
  /\ CanInvoke
  /\ e.action = "callbacks"
  /\ load_user_server(HookActionArgs(e))
  /\ FinishWith(e,
       lambda_try(callbacks_catch(
         IF LoadError.type # "none" THEN Raised(LoadError)
         ELSE callbacks_dispatch(get_callbacks(HookAfterLoad), e, hk))),
       IF LoadError.type # "none" THEN <<>>
       ELSE CallbackHookCalls(get_callbacks(HookAfterLoad), e, hk),
       hk)
  /\ args_read' = IF LoadError.type # "none" THEN {} ELSE {get_args_of(current_args')}
  /\ UNCHANGED <<bridgeVars, regVars>>

(***************************************************************************)
(* boot/client.py: get_client, in two steps: up to its first await (the    *)
(* cache look-up and, on a miss, the creation of the transport pair, the   *)
(* two sessions and the background task), and from the end of the          *)
(* handshake on.  A session is named by its number among the sessions made *)
(* for its identity; its task has the same number.                         *)
(***************************************************************************)
Participants == {Unset, "Metorial", "c1"}

\* participant_json.get('clientInfo', {}).get('name', 'Metorial')
ClientName(p) == IF p = Unset THEN "Metorial" ELSE p

Identities == {ClientName(p) : p \in Participants}

Callers == 1..MaxCallers

IdleCall == [pc |-> "idle", name |-> None, args |-> Unset, session |-> 0,
             hit |-> FALSE, args_seen |-> Unset]

\* A task creation that cancels the tasks started before for the identity.
create_task_cancels_old(ts) == Append([k \in 1..Len(ts) |-> "cancelled"], "running")

\* client.py 60: asyncio.create_task(run_server_session()); the tasks
\* started before are not touched.
create_task(ts) == Append(ts, "running")

\* get_client without its cache look-up.
CacheHit_never(name) == FALSE

CacheHit(name) == name \in DOMAIN clients

GetClientStart(c, args, p) ==
  /\ gc[c].pc # "handshake"
  /\ CacheHit(ClientName(p)) \/ builtins_server = None \/ made[ClientName(p)] < MaxMade
  /\ IF CacheHit(ClientName(p))
     THEN \* client.py 23-24: the cached session is returned, nothing is stored
          /\ gc' = [gc EXCEPT ![c] =
               [pc |-> "done", name |-> ClientName(p), args |-> args,
                session |-> clients[ClientName(p)], hit |-> TRUE,
                args_seen |-> get_args]]
          /\ UNCHANGED <<cfgVars, client_tasks, made, tasks>>
     ELSE /\ set_args(args)
          /\ UNCHANGED <<current_oauth, current_server, current_hook, epoch>>
          /\ IF builtins_server = None
             THEN \* client.py 31-33: RuntimeError
                  /\ gc' = [gc EXCEPT ![c] =
                       [pc |-> "failed", name |-> ClientName(p), args |-> args,
                        session |-> 0, hit |-> FALSE, args_seen |-> Unset]]
                  /\ UNCHANGED <<client_tasks, made, tasks>>
             ELSE \* client.py 35-63: transport, sessions, task; then it awaits
                  /\ made' = [made EXCEPT ![ClientName(p)] = @ + 1]
                  /\ tasks' = [tasks EXCEPT ![ClientName(p)] = create_task(@)]
                  /\ client_tasks' = (ClientName(p) :> made'[ClientName(p)]) @@ client_tasks
                  /\ gc' = [gc EXCEPT ![c] =
                       [pc |-> "handshake", name |-> ClientName(p), args |-> args,
                        session |-> made'[ClientName(p)], hit |-> FALSE,
                        args_seen |-> Unset]]
  /\ UNCHANGED <<clients, shaken, bootVars, invVars, regVars>>

\* A handshake whose failure does not stop get_client.
InitializeRaises_never(ok) == FALSE

\* client.py 65: await client_session.initialize() raises when the handshake
\* fails, and get_client ends there.
InitializeRaises(ok) == ~ok

\* client.py 65-69: initialize() has ended; ok: the handshake succeeded.
GetClientFinish(c, ok) ==
  /\ gc[c].pc = "handshake"
  /\ shaken' = IF ok THEN shaken \cup {<<gc[c].name, gc[c].session>>} ELSE shaken
  /\ IF ~InitializeRaises(ok)
     THEN /\ clients' = (gc[c].name :> gc[c].session) @@ clients
          /\ gc' = [gc EXCEPT ![c].pc = "done", ![c].args_seen = get_args]
     ELSE /\ gc' = [gc EXCEPT ![c].pc = "failed"]
          /\ UNCHANGED clients
  /\ UNCHANGED <<client_tasks, made, tasks, cfgVars, bootVars, invVars, regVars>>

\* An except clause that drops the identity's session from the cache.
run_server_session_except_evicts(cl, n) == [m \in DOMAIN cl \ {n} |-> cl[m]]

\* client.py 55-58: the except clause of run_server_session prints the
\* error and the traceback; _clients is not touched.
run_server_session_except(cl, n) == cl

Failed(ts) == Cardinality({k \in 1..Len(ts) : ts[k] = "failed"})

\* client.py 51-58: server._handle_session raises in the k-th task of the
\* identity n; run_server_session prints the error and the task ends.
TaskFails(n, k) ==
  /\ k \in 1..Len(tasks[n])
  /\ tasks[n][k] = "running"
  /\ Failed(tasks[n]) < MaxFails
  /\ tasks' = [tasks EXCEPT ![n][k] = "failed"]
  /\ clients' = run_server_session_except(clients, n)
  /\ UNCHANGED <<client_tasks, gc, made, shaken>>
  /\ UNCHANGED <<cfgVars, bootVars, invVars, regVars>>

(***************************************************************************)
(* The configuration slots as the SDK and user code call them              *)
(* (metorial.create_server, set_oauth_handler, set_callback_handler).      *)
(***************************************************************************)
CfgSetArgs(v) ==
  /\ set_args(v)
  /\ UNCHANGED <<current_oauth, current_server, current_hook, epoch>>
  /\ UNCHANGED <<bootVars, invVars, bridgeVars, regVars>>

CfgSetServer(v) ==
  /\ set_server(v)
  /\ UNCHANGED <<current_oauth, current_args, current_hook, epoch>>
  /\ UNCHANGED <<bootVars, invVars, bridgeVars, regVars>>

CfgSetMcpAuth(v) ==
  /\ set_mcp_auth(v)
  /\ UNCHANGED <<current_server, current_args, current_hook, epoch>>
  /\ UNCHANGED <<bootVars, invVars, bridgeVars, regVars>>

CfgSetCallbackHandler(v) ==
  /\ set_callback_handler(v)
  /\ UNCHANGED <<current_server, current_args, current_oauth, epoch>>
  /\ UNCHANGED <<bootVars, invVars, bridgeVars, regVars>>

CfgResetAll ==
  /\ epoch < MaxEpoch
  /\ reset_all
  /\ epoch' = epoch + 1
  /\ UNCHANGED <<bootVars, invVars, bridgeVars, regVars>>

(***************************************************************************)
(* boot/metorial.py: ServerWrapper.  A registry (_tools, _resources,        *)
(* _prompts) is a Python dict: a sequence of entries with distinct names,  *)
(* in insertion order; storing under a name already present replaces the   *)
(* entry where it stands.                                                  *)
(***************************************************************************)
HasKey(d, n) == \E i \in 1..Len(d) : d[i].name = n

DictGet(d, n) == d[CHOOSE i \in 1..Len(d) : d[i].name = n]

\* A dict whose assignment moves a name already present to the end.
DictSet_moves_to_end(d, e) ==
  Append(SelectSeq(d, LAMBDA x : x.name # e.name), e)

\* d[name] = entry
DictSet(d, e) ==
  IF HasKey(d, e.name)
  THEN [i \in 1..Len(d) |-> IF d[i].name = e.name THEN e ELSE d[i]]
  ELSE Append(d, e)

ToolNames     == {"t1", "t2"}
PromptNames   == {"p1"}
ResourceNames == {"r1", "r2"}
Uris          == {"u1", "u2"}

\* The options of a registration: with and without 'description' and
\* 'inputSchema'.
ToolOptions == {[description |-> "d1", inputSchema |-> "s1"], [title |-> "T"]}

\* Handlers are the provider's functions: "h1" and "h2" return a value made
\* of their argument, "hx" raises.
ToolHandlers   == {"h1", "hx"}
PromptHandlers == {"h1", "h2"}

\* Resource handlers: what each returns for a URI ("" is a falsy result).
ResourceHandlers == {"rh_none", "rh_u1", "rh_any"}

HandlerRaises(h, arg) == h = "hx"

HandlerResult(h, arg) ==
  CASE h = "rh_none" -> ""
    [] h = "rh_u1"   -> IF arg = "u1" THEN "content of u1 by rh_u1" ELSE ""
    [] h = "rh_any"  -> "content by rh_any"
    [] OTHER         -> "result of " \o h \o " on " \o arg

\* A truth test that takes every result as non-empty.
Truthy_always(v) == TRUE

Truthy(v) == v # "" /\ v # None

\* metorial.py 51-56, 83-89, 114-119: decorator(func) stores the entry.
register_tool(name, options, handler) ==
  tools' = DictSet(tools, [name |-> name, options |-> options, handler |-> handler])

register_resource(name, template, options, handler) ==
  resources' = DictSet(resources, [name |-> name, template |-> template,
                                   options |-> options, handler |-> handler])

register_prompt(name, options, handler) ==
  prompts' = DictSet(prompts, [name |-> name, options |-> options, handler |-> handler])

OptionGet(options, key, default) ==
  IF key \in DOMAIN options THEN options[key] ELSE default

tool_def(e) ==
  [name |-> e.name,
   description |-> OptionGet(e.options, "description", ""),
   inputSchema |-> OptionGet(e.options, "inputSchema", "{type: object, properties: {}}")]

\* metorial.py 164-174
list_tools(d) == [i \in 1..Len(d) |-> tool_def(d[i])]

\* A look-up that falls back to the first entry for a name it does not know.
call_by_name_fallback(d, what, name, arguments) ==
  IF d = <<>> THEN Raised(Exc("ValueError", "Unknown " \o what \o ": " \o name))
  ELSE Returned(HandlerResult(d[1].handler, arguments))

\* metorial.py 176-182 and 228-234: the look-up by name, then the handler.
call_by_name(d, what, name, arguments) ==
  IF ~HasKey(d, name) THEN Raised(Exc("ValueError", "Unknown " \o what \o ": " \o name))
  ELSE IF HandlerRaises(DictGet(d, name).handler, arguments)
       THEN Raised(Exc("RuntimeError", "handler failed"))
  ELSE Returned(HandlerResult(DictGet(d, name).handler, arguments))

calls_by_name(d, name, arguments) ==
  IF HasKey(d, name)
  THEN <<[handler |-> DictGet(d, name).handler, entry |-> name, arg |-> arguments]>>
  ELSE <<>>

call_tool(name, arguments) == call_by_name(tools, "tool", name, arguments)

get_prompt(name, arguments) == call_by_name(prompts, "prompt", name, arguments)

\* metorial.py 204-213: the loop over the resource handlers from entry i on.
RECURSIVE read_resource_from(_, _, _)
read_resource_from(d, i, uri) ==
  IF i > Len(d) THEN Raised(Exc("ValueError", "Unknown resource: " \o uri))
  ELSE IF HandlerRaises(d[i].handler, uri)
       THEN Raised(Exc("RuntimeError", "handler failed"))
  ELSE IF Truthy(HandlerResult(d[i].handler, uri))
       THEN Returned(HandlerResult(d[i].handler, uri))
  ELSE read_resource_from(d, i + 1, uri)

RECURSIVE read_resource_calls(_, _, _)
read_resource_calls(d, i, uri) ==
  IF i > Len(d) THEN <<>>
  ELSE <<[handler |-> d[i].handler, entry |-> d[i].name, arg |-> uri]>> \o
       (IF HandlerRaises(d[i].handler, uri) \/ Truthy(HandlerResult(d[i].handler, uri))
        THEN <<>> ELSE read_resource_calls(d, i + 1, uri))

read_resource(uri) == read_resource_from(resources, 1, uri)

\* metorial.py 236-258: the capabilities as the set of keys and their values.
get_capabilities ==
  [k \in {"experimental"}
         \cup (IF tools # <<>> THEN {"tools"} ELSE {})
         \cup (IF resources # <<>> THEN {"resources"} ELSE {})
         \cup (IF prompts # <<>> THEN {"prompts"} ELSE {}) |->
     CASE k = "experimental" -> EmptyMap
       [] k = "resources"    -> "{listChanged: false, subscribe: false}"
       [] OTHER              -> "{listChanged: false}"]

Query(op, name, arg, out, cs) ==
  /\ reg_out' = [op |-> op, name |-> name, arg |-> arg, out |-> out]
  /\ reg_calls' = cs
  /\ UNCHANGED <<tools, resources, prompts, reg_log, pending>>
  /\ UNCHANGED <<cfgVars, bootVars, invVars, bridgeVars>>

\* A registration is complete: the log of registrations grows, the last
\* query is forgotten.  form: the handler came with the call ("direct") or
\* was attached to the decorator the call had returned ("decorator").
Logged(kind, name, options, handler, form) ==
  /\ reg_log' = Append(reg_log, [kind |-> kind, name |-> name, options |-> options,
                                 handler |-> handler, form |-> form])
  /\ reg_out' = NoResult
  /\ reg_calls' = <<>>
  /\ UNCHANGED <<cfgVars, bootVars, invVars, bridgeVars>>

Registered(kind, name, options, handler) ==
  /\ Len(reg_log) + Cardinality(pending) < MaxRegs
  /\ Logged(kind, name, options, handler, "direct")
  /\ UNCHANGED pending

RegisterTool(name, options, handler) ==
  /\ Registered("tool", name, options, handler)
  /\ register_tool(name, options, handler)
  /\ UNCHANGED <<resources, prompts>>

RegisterResource(name, handler) ==
  /\ Registered("resource", name, [title |-> "T"], handler)
  /\ register_resource(name, "tpl://" \o name, [title |-> "T"], handler)
  /\ UNCHANGED <<tools, prompts>>

RegisterPrompt(name, handler) ==
  /\ Registered("prompt", name, [title |-> "T"], handler)
  /\ register_prompt(name, [title |-> "T"], handler)
  /\ UNCHANGED <<tools, resources>>

\* metorial.py 51, 83, 114: the decorator register_* defines, a closure over
\* the arguments of the call.
Closure(kind, name, options) ==
  [kind |-> kind, name |-> name, options |-> options,
   template |-> IF kind = "resource" THEN "tpl://" \o name ELSE Unset]

\* A decorator that stores other options than those it was created with.
decorator_drops_options(d, func) ==
  IF d.kind = "resource"
  THEN [name |-> d.name, template |-> d.template, options |-> [title |-> "none"],
        handler |-> func]
  ELSE [name |-> d.name, options |-> [title |-> "none"], handler |-> func]

\* metorial.py 51-56, 83-89, 114-119: the entry decorator(func) stores.
decorator(d, func) ==
  IF d.kind = "resource"
  THEN [name |-> d.name, template |-> d.template, options |-> d.options, handler |-> func]
  ELSE [name |-> d.name, options |-> d.options, handler |-> func]

\* metorial.py 58-59, 91-92, 121-122: register_*(name, options) without a
\* handler returns the decorator; nothing is stored.
Decorate(kind, name, options) ==
  /\ Len(reg_log) + Cardinality(pending) < MaxRegs
  /\ Closure(kind, name, options) \notin pending
  /\ pending' = pending \cup {Closure(kind, name, options)}
  /\ UNCHANGED <<tools, resources, prompts, reg_out, reg_calls, reg_log>>
  /\ UNCHANGED <<cfgVars, bootVars, invVars, bridgeVars>>

\* The decorator d is applied to the handler func (the function under the @
\* line is defined).
Attach(d, func) ==
  /\ d \in pending
  /\ pending' = pending \ {d}
  /\ Logged(d.kind, d.name, d.options, func, "decorator")
  /\ tools' = IF d.kind = "tool" THEN DictSet(tools, decorator(d, func)) ELSE tools
  /\ resources' = IF d.kind = "resource" THEN DictSet(resources, decorator(d, func))
                  ELSE resources
  /\ prompts' = IF d.kind = "prompt" THEN DictSet(prompts, decorator(d, func)) ELSE prompts

ListTools == Query("list_tools", None, None, Returned(list_tools(tools)), <<>>)

CallTool(name, arguments) ==
  Query("call_tool", name, arguments, call_tool(name, arguments),
        calls_by_name(tools, name, arguments))

GetPrompt(name, arguments) ==
  Query("get_prompt", name, arguments, get_prompt(name, arguments),
        calls_by_name(prompts, name, arguments))

ReadResource(uri) ==
  Query("read_resource", None, uri, read_resource(uri),
        read_resource_calls(resources, 1, uri))

GetCapabilities == Query("get_capabilities", None, None, Returned(get_capabilities), <<>>)

(***************************************************************************)
(* Specifications.  A fresh process: nothing loaded, every slot            *)
(* unresolved, no invocation running, the bridge cache empty.              *)
(***************************************************************************)
FreshProcess(modules) ==
  /\ current_oauth = NewPromise
  /\ current_server = NewPromise
  /\ current_hook = NewPromise
  /\ current_args = NewPromise
  /\ epoch = 0
  /\ user_module \in modules
  /\ user_module_loaded = FALSE
  /\ builtins_server = None
  /\ builtins_handlers = {}
  /\ pc = "idle"
  /\ event = NoEvent
  /\ idx = 0
  /\ responses = <<>>
  /\ calls = <<>>
  /\ args_read = {}
  /\ hook_script = NoScript
  /\ result = NoResult
  /\ clients = <<>>
  /\ client_tasks = <<>>
  /\ gc = [c \in Callers |-> IdleCall]
  /\ made = [n \in Identities |-> 0]
  /\ tasks = [n \in Identities |-> <<>>]
  /\ shaken = {}
  /\ exec_count = 0
  /\ loads = 0
  /\ tools = <<>>
  /\ resources = <<>>
  /\ prompts = <<>>
  /\ reg_out = NoResult
  /\ reg_calls = <<>>
  /\ reg_log = <<>>
  /\ pending = {}

\* The dispatcher on one batch: handle_mcp_request run once by a fresh process.
InitBatch == FreshProcess(BatchModules)

NextBatch ==
  \/ pc = "idle" /\ \E e \in BatchEvents : McpBegin(e)
  \/ McpAbort
  \/ McpSkip
  \/ InLoop /\ \E o \in {"none", "ok", "empty", "raise", "raise_mcp"} : McpReply(o)
  \/ McpReturn

SpecBatch == InitBatch /\ [][NextBatch]_vars

\* One process serving a sequence of invocations: lambda_handler events and
\* get_client calls, one at a time.
Init == FreshProcess(ProcModules)

Quiet == \A c \in Callers : gc[c].pc # "handshake"

Next ==
  \/ CanInvoke /\ Quiet /\ \E e \in ProcEvents : LambdaNoLoop(e)
  \/ CanInvoke /\ Quiet /\ \E e \in ProcEvents : LambdaUnknown(e)
  \/ CanInvoke /\ Quiet /\ \E e \in ProcEvents : McpBadArgs(e)
  \/ CanInvoke /\ Quiet /\ \E e \in ProcEvents : McpBegin(e)
  \/ CanInvoke /\ Quiet /\ \E e \in ProcEvents, x \in DiscoverOutcomes :
       Discover(e, x.lo, x.cap)
  \/ CanInvoke /\ Quiet /\ \E e \in ProcEvents, hk \in {"ok", "raise"} :
       OAuthAction(e, hk)
  \/ CanInvoke /\ Quiet /\ \E e \in ProcEvents, hk \in HookScripts :
       CallbacksAction(e, hk)
  \/ McpAbort
  \/ McpSkip
  \/ InLoop /\ \E o \in {"none", "ok", "empty", "raise", "raise_mcp"} : McpReply(o)
  \/ McpReturn
  \/ CanInvoke /\ \E a \in ArgObjs, p \in {"c1"} : GetClientStart(1, a, p)
  \/ \E ok \in BOOLEAN : GetClientFinish(1, ok)

Spec == Init /\ [][Next]_vars

\* The bridge under concurrent get_client calls, in a process whose provider
\* a discover invocation loads.
LoadedModule == Module("ok", TRUE, HandlerNames, None, None)

InitBridge == FreshProcess({LoadedModule})

NextBridge ==
  \/ CanInvoke /\ Discover(Event("discover", "A1", <<>>, Unset, <<>>),
                           [h \in ListHandlers |-> "ok"], "ok")
  \/ \E c \in Callers, p \in Participants : GetClientStart(c, "A1", p)
  \/ \E c \in Callers, ok \in BOOLEAN : GetClientFinish(c, ok)

SpecBridge == InitBridge /\ [][NextBridge]_vars

\* The bridge of one identity when a background task may fail at any time.
InitTasks == FreshProcess({LoadedModule})

NextTasks ==
  \/ CanInvoke /\ Discover(Event("discover", "A1", <<>>, Unset, <<>>),
                           [h \in ListHandlers |-> "ok"], "ok")
  \/ \E c \in Callers : GetClientStart(c, "A1", "c1")
  \/ \E c \in Callers, ok \in BOOLEAN : GetClientFinish(c, ok)
  \/ \E k \in 1..MaxMade : TaskFails("c1", k)

SpecTasks == InitTasks /\ [][NextTasks]_vars

\* The configuration slots under any order of sets and resets.
InitConfig == FreshProcess({LoadedModule})

NextConfig ==
  \/ \E v \in ArgObjs \cup {EmptyMap} : CfgSetArgs(v)
  \/ \E v \in {"srv", "srv2"} : CfgSetServer(v)
  \/ \E v \in {"OA", "OA+form"} : CfgSetMcpAuth(v)
  \/ \E v \in {"CB", "CB+install"} : CfgSetCallbackHandler(v)
  \/ CfgResetAll

SpecConfig == InitConfig /\ [][NextConfig]_vars

\* A ServerWrapper under any order of registrations and queries.
InitRegistry == FreshProcess({LoadedModule})

NextRegistry ==
  \/ \E n \in ToolNames, o \in ToolOptions, h \in ToolHandlers : RegisterTool(n, o, h)
  \/ \E n \in ResourceNames, h \in ResourceHandlers : RegisterResource(n, h)
  \/ \E n \in PromptNames, h \in PromptHandlers : RegisterPrompt(n, h)
  \/ ListTools
  \/ \E n \in ToolNames \cup {"t3"}, a \in {"a1"} : CallTool(n, a)
  \/ \E n \in PromptNames \cup {"p2"}, a \in {"a1"} : GetPrompt(n, a)
  \/ \E u \in Uris : ReadResource(u)
  \/ GetCapabilities

SpecRegistry == InitRegistry /\ [][NextRegistry]_vars

\* A ServerWrapper whose provider registers in both forms, in any order.
InitRegistration == FreshProcess({LoadedModule})

Decorated ==
  {Closure("tool", n, o) : n \in ToolNames, o \in ToolOptions}
    \cup {Closure("resource", n, [title |-> "T"]) : n \in ResourceNames}
    \cup {Closure("prompt", n, [title |-> "T"]) : n \in PromptNames}

HandlersOf(kind) ==
  CASE kind = "tool"     -> ToolHandlers
    [] kind = "resource" -> ResourceHandlers
    [] OTHER             -> PromptHandlers

NextRegistration ==
  \/ \E n \in ToolNames, o \in ToolOptions, h \in ToolHandlers : RegisterTool(n, o, h)
  \/ \E n \in ResourceNames, h \in ResourceHandlers : RegisterResource(n, h)
  \/ \E n \in PromptNames, h \in PromptHandlers : RegisterPrompt(n, h)
  \/ \E d \in Decorated : Decorate(d.kind, d.name, d.options)
  \/ \E d \in pending : \E h \in HandlersOf(d.kind) : Attach(d, h)

SpecRegistration == InitRegistration /\ [][NextRegistration]_vars

(***************************************************************************)
(* The dispatcher's claims (SpecBatch).                                    *)
(***************************************************************************)
IsRequest(raw) == raw.kind = "object" /\ raw.hasId

\* The ids of the messages of a batch that carry an 'id', in input order.
RECURSIVE RequestIds(_)
RequestIds(msgs) ==
  IF msgs = <<>> THEN <<>>
  ELSE (IF IsRequest(Head(msgs)) THEN <<Head(msgs).id>> ELSE <<>>) \o RequestIds(Tail(msgs))

McpReturned == pc = "returned" /\ event.action \in McpActions

ReturnedResponses == IF "responses" \in DOMAIN result THEN result.responses ELSE <<>>

IdsOf(rs) == [i \in 1..Len(rs) |-> rs[i].id]

\* C1: once handle_mcp_request has returned, the result holds a 'responses'
\* list with one entry per message of the batch that carries an 'id', in the
\* order of those messages.
C1_RepliesMatchRequests ==
  McpReturned =>
    /\ "responses" \in DOMAIN result
    /\ IdsOf(ReturnedResponses) = RequestIds(event.messages)

\* C2: a message that fails (no JSON, no object, no handler, a handler that
\* raises) never aborts the batch: the invocation returns success = true and
\* every request of the batch has its reply in 'responses'.
C2_FailureNeverAborts ==
  McpReturned =>
    /\ result.success
    /\ \A i \in 1..Len(event.messages) :
         IsRequest(event.messages[i]) =>
           \E j \in 1..Len(ReturnedResponses) :
             ReturnedResponses[j].id = event.messages[i].id

OneOfResultOrError(r) ==
  ("result" \in DOMAIN r) # ("error" \in DOMAIN r)

\* C3: every request the dispatcher has processed has exactly one entry in
\* the replies returned, with the request's id and with exactly one of
\* 'result' and 'error'.
C3_OneReplyPerRequest ==
  McpReturned =>
    LET done == RequestIds(SubSeq(event.messages, 1, idx)) IN
      /\ Len(ReturnedResponses) = Len(done)
      /\ \A k \in 1..Len(done) :
           /\ ReturnedResponses[k].id = done[k]
           /\ OneOfResultOrError(ReturnedResponses[k])

\* The same correlation, of the list the dispatcher is building: it holds
\* one well-formed entry per request consumed so far.
ResponsesTrackRequests ==
  pc = "loop" =>
    /\ IdsOf(responses) = RequestIds(SubSeq(event.messages, 1, idx))
    /\ \A k \in 1..Len(responses) : OneOfResultOrError(responses[k])

\* C8: the reply to a request whose handler raised a structured protocol
\* error carries that error's own code, message and data; the reply to any
\* other failure carries the fixed code -32603.
C8_ProtocolErrorForwarded ==
  \A k \in 1..Len(calls) :
    LET c == calls[k] IN
      /\ c.out = "raise_mcp" =>
           /\ "error" \in DOMAIN responses[c.at]
           /\ responses[c.at].error.code = ExcOf(c.out).code
           /\ responses[c.at].error.message = ExcOf(c.out).msg
           /\ responses[c.at].error.data = ExcOf(c.out).data
      /\ c.out = "raise" =>
           /\ "error" \in DOMAIN responses[c.at]
           /\ responses[c.at].error.code = InternalError

\* The handlers a batch invokes when every message is routed by its method
\* alone, with or without an 'id'.
RECURSIVE RoutedOps(_, _)
RoutedOps(handlers, msgs) ==
  IF msgs = <<>> THEN <<>>
  ELSE (IF Head(msgs).kind = "object" /\ HandlerOf(Head(msgs).method) \in handlers
        THEN <<[op |-> HandlerOf(Head(msgs).method), param |-> Head(msgs).param]>>
        ELSE <<>>) \o RoutedOps(handlers, Tail(msgs))

\* C9: a message without 'id' is routed like a request with the same method:
\* the provider operations invoked so far are those of all the messages
\* consumed, notifications included, with their params.
C9_NotificationsRouted ==
  pc = "loop" =>
    [k \in 1..Len(calls) |-> [op |-> calls[k].op, param |-> calls[k].param]]
      = RoutedOps(builtins_handlers, SubSeq(event.messages, 1, idx))

(***************************************************************************)
(* The process's claims (Spec).                                            *)
(***************************************************************************)
\* The configuration an event carries, as a mapping.
EventArgs(e) ==
  IF e.args = Unset THEN EmptyMap
  ELSE IF e.args \in TextArgs THEN JsonLoads(e.args)
  ELSE e.args

\* C4: what get_args() gives during an invocation is the args of that
\* invocation's event (for a get_client call: the args it was called with),
\* never those of an earlier invocation.
C4_ArgsOfThisInvocation ==
  /\ \A a \in args_read : a = EventArgs(event)
  /\ \A c \in Callers : gc[c].pc = "done" => gc[c].args_seen = gc[c].args

\* The part of C4 about earlier invocations alone: a get_client call never
\* ends with the configuration of another invocation in force.
BridgeArgsNotStale ==
  \A c \in Callers : gc[c].pc = "done" => gc[c].args_seen = gc[c].args

\* The oauth 'get' operation has run: the provider loaded and the event loop
\* ran handle_oauth_action to its end.
OAuthGetRan ==
  /\ pc = "returned"
  /\ event.action = "oauth"
  /\ event.sub = "get"
  /\ args_read # {}

\* C6: with no OAuth hook set registered, oauth 'get' ends with the
\* 'not configured' answer {enabled: false, hasForm: false}, not an error.
C6_OAuthGetNotConfigured ==
  OAuthGetRan /\ ~current_oauth.resolved =>
    /\ result.success
    /\ result.oauth = [enabled |-> FALSE, hasForm |-> FALSE]

\* C10: whatever the event and whatever fails, lambda_handler returns an
\* object with a boolean 'success', and with an 'error' holding 'code' and
\* 'message' when success is false; no exception leaves it.
C10_WellFormedResult ==
  pc = "returned" =>
    /\ "success" \in DOMAIN result
    /\ result.success \in BOOLEAN
    /\ ~result.success =>
         /\ "error" \in DOMAIN result
         /\ {"code", "message"} \subseteq DOMAIN result.error

\* A discover invocation has failed because the provider's module raised.
C10_Witness ==
  /\ pc = "returned"
  /\ event.action = "discover"
  /\ ~user_module_loaded
  /\ ~result.success
  /\ result.error.code = "discovery_error"

(***************************************************************************)
(* The configuration slots' claim (SpecConfig).                            *)
(***************************************************************************)
Kept(p, q) == p.resolved => q = p

\* C5: within one epoch (no reset_all in between) a resolved slot keeps its
\* value: a later resolve is a no-op.
C5_SingleAssignment ==
  [][epoch' = epoch =>
       /\ Kept(current_args, current_args')
       /\ Kept(current_server, current_server')
       /\ Kept(current_oauth, current_oauth')
       /\ Kept(current_hook, current_hook')]_vars

(***************************************************************************)
(* The bridge's claim (SpecBridge).                                        *)
(***************************************************************************)
\* C7: at most one transport pair, task and session are ever created for an
\* identity, and all get_client calls for it return the same session.
C7_OneSessionPerIdentity ==
  /\ \A n \in Identities : made[n] <= 1
  /\ \A c, d \in Callers :
       gc[c].pc = "done" /\ gc[d].pc = "done" /\ gc[c].name = gc[d].name
         => gc[c].session = gc[d].session

InFlight(n) == \E c \in Callers : gc[c].pc = "handshake" /\ gc[c].name = n

Settled(n) == n \in DOMAIN clients /\ ~InFlight(n)

\* C7 as amended: once an identity's session is cached and no get_client
\* call that missed the cache is still in its handshake, nothing is created
\* for that identity any more (no session, no task), its cache entry stays,
\* and every get_client call for it returns the cached session.
C7_SettledSessionKept ==
  [][\A n \in Identities :
       Settled(n) =>
         /\ n \in DOMAIN clients'
         /\ clients'[n] = clients[n]
         /\ made'[n] = made[n]
         /\ client_tasks'[n] = client_tasks[n]
         /\ \A c \in Callers :
              gc'[c] # gc[c] /\ gc'[c].name = n =>
                gc'[c].pc = "done" /\ gc'[c].session = clients[n]]_vars

\* Two sessions were created for one identity, and a later call found the
\* cached one.
C7_Witness ==
  \E c \in Callers :
    /\ gc[c].pc = "done"
    /\ gc[c].hit
    /\ made[gc[c].name] >= 2
    /\ Settled(gc[c].name)
    /\ gc[c].session = clients[gc[c].name]

(***************************************************************************)
(* The registry's claims (SpecRegistry).  What a query has to give is      *)
(* computed from the log of the register_* calls.                          *)
(***************************************************************************)
LogOf(kind) == SelectSeq(reg_log, LAMBDA r : r.kind = kind)

\* The distinct names of a log, in the order of their first registration.
RECURSIVE FirstNames(_)
FirstNames(log) ==
  IF log = <<>> THEN <<>>
  ELSE LET pre == FirstNames(SubSeq(log, 1, Len(log) - 1))
           n   == log[Len(log)].name
       IN IF \E i \in 1..Len(pre) : pre[i] = n THEN pre ELSE Append(pre, n)

Registered_in(log, n) == \E i \in 1..Len(log) : log[i].name = n

\* The latest registration of the name n.
LastOf(log, n) ==
  log[CHOOSE i \in 1..Len(log) :
        log[i].name = n /\ \A j \in (i + 1)..Len(log) : log[j].name # n]

Asked(ops) == "op" \in DOMAIN reg_out /\ reg_out.op \in ops

UnknownError(out) == out.raised /\ out.exc.type = "ValueError"

\* C11: _list_tools gives one descriptor per distinct registered name, in the
\* order the names were first registered, each made of the options of the
\* name's latest registration and holding no handler; _call_tool knows every
\* listed name.
C11_ListMatchesRegistrations ==
  Asked({"list_tools"}) =>
    LET out   == reg_out.out.value
        names == FirstNames(LogOf("tool"))
    IN /\ ~reg_out.out.raised
       /\ Len(out) = Len(names)
       /\ \A i \in 1..Len(out) :
            /\ out[i].name = names[i]
            /\ DOMAIN out[i] = {"name", "description", "inputSchema"}
            /\ out[i].description =
                 OptionGet(LastOf(LogOf("tool"), names[i]).options, "description", "")
            /\ ~UnknownError(call_tool(out[i].name, "a1"))

\* A listing after a name was registered again with other options.
C11_Witness ==
  /\ Asked({"list_tools"})
  /\ Len(LogOf("tool")) = 3
  /\ Len(reg_out.out.value) = 2
  /\ LogOf("tool")[1].name = LogOf("tool")[3].name
  /\ LogOf("tool")[1].options # LogOf("tool")[3].options

Probed ==
  [i \in 1..Len(FirstNames(LogOf("resource"))) |->
     LastOf(LogOf("resource"), FirstNames(LogOf("resource"))[i])]

Claims(i, uri) == HandlerResult(Probed[i].handler, uri) # ""

\* C13: _read_resource invokes the resource handlers in registration order
\* up to the first whose result is non-empty and returns that result; when
\* no handler gives a non-empty result it fails as unknown, every handler
\* having been invoked.
C13_FirstClaimingHandler ==
  Asked({"read_resource"}) =>
    LET uri == reg_out.arg
        hit == {i \in 1..Len(Probed) : Claims(i, uri)}
    IN IF hit = {}
       THEN /\ UnknownError(reg_out.out)
            /\ Len(reg_calls) = Len(Probed)
            /\ \A i \in 1..Len(Probed) : reg_calls[i].entry = Probed[i].name
       ELSE LET k == CHOOSE i \in hit : \A j \in hit : i <= j
            IN /\ reg_out.out = Returned(HandlerResult(Probed[k].handler, uri))
               /\ Len(reg_calls) = k
               /\ \A i \in 1..k : reg_calls[i].entry = Probed[i].name
                                  /\ reg_calls[i].arg = uri

\* The first handler returned an empty result, the second one claimed the URI.
C13_Witness ==
  /\ Asked({"read_resource"})
  /\ Len(resources) = 2
  /\ resources[1].handler = "rh_none"
  /\ Len(reg_calls) = 2
  /\ ~reg_out.out.raised

\* C14: get_capabilities has no 'tools', 'resources' or 'prompts' key before
\* any registration; after the registration of exactly one tool it is
\* exactly {tools: {listChanged: false}}.
C14_CapabilitiesOfRegistry ==
  Asked({"get_capabilities"}) =>
    /\ reg_log = <<>> =>
         DOMAIN reg_out.out.value \cap {"tools", "resources", "prompts"} = {}
    /\ Len(reg_log) = 1 /\ reg_log[1].kind = "tool" =>
         /\ DOMAIN reg_out.out.value = {"tools"}
         /\ reg_out.out.value["tools"] = "{listChanged: false}"

\* The part of C14 that holds: the capability kinds reported are those of
\* the non-empty registries.
CapabilityKindsOfRegistry ==
  Asked({"get_capabilities"}) =>
    DOMAIN reg_out.out.value \ {"experimental"} =
      (IF LogOf("tool") # <<>> THEN {"tools"} ELSE {})
        \cup (IF LogOf("resource") # <<>> THEN {"resources"} ELSE {})
        \cup (IF LogOf("prompt") # <<>> THEN {"prompts"} ELSE {})

(***************************************************************************)
(* The adapters' claims (Spec).                                            *)
(***************************************************************************)
\* The operation sub of the action has run: the provider loaded and the
\* action handler ran the operation to its end.
Ran(action, subs) ==
  /\ pc = "returned"
  /\ event.action = action
  /\ event.sub \in subs
  /\ args_read # {}

\* C15: the callbacks 'handle' operation calls the primary hook once per
\* inbound event, in input order, and returns one record per event in that
\* order, {success, eventId, result} or {success: false, eventId, error};
\* no event's failure keeps the others from being handled and recorded.
C15_OneRecordPerEvent ==
  Ran("callbacks", {"handle"}) /\ current_hook.resolved =>
    /\ calls = [i \in 1..Len(event.events) |->
                  [op |-> "handle_hook", arg |-> event.events[i]]]
    /\ result.success
    /\ Len(result.callbacks.results) = Len(event.events)
    /\ \A i \in 1..Len(event.events) :
         LET r == result.callbacks.results[i]
         IN /\ IsMapping(event.events[i]) => r.eventId = event.events[i]
            /\ IF r.success THEN "result" \in DOMAIN r ELSE "error" \in DOMAIN r

\* What holds of 'handle' as the code stands: when every inbound event is a
\* mapping there is one record per event, in order.
HandleRecordsPerEvent ==
  Ran("callbacks", {"handle"}) /\ (\A i \in 1..Len(event.events) : IsMapping(event.events[i]))
    => /\ result.success
       /\ Len(result.callbacks.results) = Len(event.events)
       /\ \A i \in 1..Len(event.events) :
            result.callbacks.results[i].eventId = event.events[i]

\* C16: the callbacks 'poll' operation gives the poll hook the input state
\* and returns as newState the value of the last setter call, or the input
\* state when the setter was not called; a hook result that is no list comes
\* back as a singleton list when non-empty and as an empty list when empty.
C16_PollState ==
  Ran("callbacks", {"poll"}) /\ current_hook.resolved /\ HasPoll(current_hook.value)
    /\ ~hook_script.fails =>
      /\ calls = <<[op |-> "poll_hook", arg |-> InputState(event)]>>
      /\ result.success
      /\ result.callbacks.newState =
           (IF hook_script.sets = <<>> THEN InputState(event)
            ELSE hook_script.sets[Len(hook_script.sets)])
      /\ hook_script.out = "item"  => Len(result.callbacks.events) = 1
      /\ hook_script.out = "empty" => result.callbacks.events = <<>>

\* C17: the callbacks 'get' operation reports {enabled: false} when no hook
\* set is registered, and otherwise {enabled: true, type} with type
\* 'webhook' when an install hook is present, 'polling' when only a poll
\* hook is, 'manual' when neither is.
C17_CallbackMode ==
  Ran("callbacks", {"get"}) =>
    /\ result.success
    /\ result.callbacks =
         (IF ~current_hook.resolved THEN [enabled |-> FALSE]
          ELSE [enabled |-> TRUE,
                type |-> IF HasInstall(current_hook.value) THEN "webhook"
                         ELSE IF HasPoll(current_hook.value) THEN "polling"
                         ELSE "manual"])

NotConfiguredMessages ==
  {"OAuth not configured", "OAuth form not available", "OAuth refresh not supported",
   "Callback installation not supported", "Callback polling not supported"}

\* The sub-hook the operation of the returned invocation needs: its name,
\* whether the registered hook set has it, and what it is to be given.
NeededHook ==
  IF event.action = "oauth"
  THEN [op |-> OAuthHookOf(event.sub).op,
        present |-> current_oauth.resolved
                    /\ current_oauth.value \in OAuthHookOf(event.sub).with,
        arg |-> "input"]
  ELSE IF event.sub = "install"
  THEN [op |-> "install_hook",
        present |-> current_hook.resolved /\ HasInstall(current_hook.value),
        arg |-> "input"]
  ELSE [op |-> "poll_hook",
        present |-> current_hook.resolved /\ HasPoll(current_hook.value),
        arg |-> InputState(event)]

\* C18: an OAuth or callback invocation operation whose hook set is not
\* registered, or whose sub-hook is absent, fails with a not-configured /
\* not-supported error and calls no hook; otherwise it calls exactly the
\* sub-hook it needs, once, with the input.
C18_HookPresenceChecked ==
  \/ Ran("oauth", {"authorization-url", "authorization-form", "callback", "refresh"})
  \/ Ran("callbacks", {"install", "poll"})
  => IF NeededHook.present
     THEN calls = <<[op |-> NeededHook.op, arg |-> NeededHook.arg]>>
     ELSE /\ calls = <<>>
          /\ ~result.success
          /\ result.error.message \in NotConfiguredMessages

\* What holds of these operations as the code stands: no hook is ever called.
NoHookEverCalled ==
  pc = "returned" /\ event.action \in {"oauth", "callbacks"} => calls = <<>>

(***************************************************************************)
(* The loader's and the discovery's claims (Spec).                         *)
(***************************************************************************)
\* C19: once load_user_server has executed the user module successfully, no
\* later invocation executes it again, and the loaded flag, the server
\* object and the handler table stay what they are.
C19_LoadIsIdempotent ==
  [][user_module_loaded =>
       /\ user_module_loaded'
       /\ exec_count' = exec_count
       /\ builtins_server' = builtins_server
       /\ builtins_handlers' = builtins_handlers]_vars

\* A second load_user_server call has returned, the module having been
\* executed once.
C19_Witness ==
  /\ user_module_loaded
  /\ loads >= 2
  /\ exec_count = 1
  /\ pc = "returned"
  /\ args_read # {}

\* handle_discover has run in the returned invocation.
DiscoverRan == pc = "returned" /\ event.action = "discover" /\ "lo" \in DOMAIN hook_script

\* A list operation that the handler table has raised.
ListFailed == \E h \in ListHandlers \cap builtins_handlers : hook_script.lo[h] = "raise"

Listing(h) ==
  IF h \in builtins_handlers /\ hook_script.lo[h] = "ok" THEN "L" ELSE "[]"

\* The descriptor of a successful discovery.
DiscoveryDescriptor ==
  /\ result.success
  /\ DOMAIN result.discovery =
       {"tools", "resourceTemplates", "prompts", "capabilities", "implementation",
        "instructions"}
  /\ result.discovery.tools = Listing("list_tools")
  /\ result.discovery.resourceTemplates = Listing("list_resources")
  /\ result.discovery.prompts = Listing("list_prompts")
  /\ \A h \in ListHandlers \ builtins_handlers : \A i \in 1..Len(calls) : calls[i].op # h

DiscoveryError == ~result.success /\ result.error.code = "discovery_error"

\* C20: handle_discover returns the discovery descriptor, with an empty list
\* for a list operation the handler table lacks, and fails with
\* 'discovery_error' only when the load or a present list operation fails.
C20_DiscoverFailsOnlyOnLoadOrList ==
  DiscoverRan =>
    IF args_read = {} \/ ListFailed THEN DiscoveryError ELSE DiscoveryDescriptor

\* C20 as amended: the discovery fails with 'discovery_error' exactly when
\* the load, a present list operation or the server's capabilities query
\* fails; otherwise it returns the descriptor, with an empty list for a list
\* operation the handler table lacks.
C20_DiscoverOutcome ==
  DiscoverRan =>
    IF args_read = {} \/ ListFailed \/ hook_script.cap = "raise"
    THEN DiscoveryError ELSE DiscoveryDescriptor

\* A successful discovery by a provider without list_resources and
\* list_prompts.
C20_Witness ==
  /\ DiscoverRan
  /\ result.success
  /\ builtins_handlers = {"list_tools", "call_tool"}
  /\ result.discovery.tools = "L"
  /\ result.discovery.resourceTemplates = "[]"


(***************************************************************************)
(* The configuration slots' reset (SpecConfig).                            *)
(***************************************************************************)
Fresh(p) == p.value = None /\ ~p.resolved

\* A slot that a step assigns holds, after the step, a value that was set.
TakesEffect(p, q) == q # p => q.resolved /\ q.value # None

\* C21: immediately after reset_all() get_args() gives the empty mapping and
\* the server, OAuth-hook and callback-hook slots are unresolved with no
\* value, whatever they held before; a set_* of the new epoch takes effect.
C21_ResetInstallsFreshSlots ==
  [][/\ epoch' # epoch =>
          /\ get_args_of(current_args') = EmptyMap
          /\ Fresh(current_args')
          /\ Fresh(current_server')
          /\ Fresh(current_oauth')
          /\ Fresh(current_hook')
     /\ epoch' = epoch =>
          /\ TakesEffect(current_args, current_args')
          /\ TakesEffect(current_server, current_server')
          /\ TakesEffect(current_oauth, current_oauth')
          /\ TakesEffect(current_hook, current_hook')]_vars

\* After a reset, arguments set in the new epoch are in force while the
\* other three slots are still the fresh ones.
C21_Witness ==
  /\ epoch >= 1
  /\ get_args = "A2"
  /\ Fresh(current_server)
  /\ Fresh(current_oauth)
  /\ Fresh(current_hook)


(***************************************************************************)
(* The bridge's handshake (SpecBridge).                                    *)
(***************************************************************************)
\* The session k of the identity n has its background task started and its
\* handshake completed.
Ready(n, k, ts, sh) == k \in 1..Len(ts[n]) /\ <<n, k>> \in sh

HandshakeFailed(c) == gc[c].pc = "failed" /\ gc[c].session > 0

\* C22: every session in _clients, and every session get_client returns,
\* has its background task started and its handshake completed; a get_client
\* call whose handshake fails stores nothing in _clients.
C22_CachedAfterHandshake ==
  [][/\ \A n \in DOMAIN clients' : Ready(n, clients'[n], tasks', shaken')
     /\ \A c \in Callers :
          /\ gc'[c] # gc[c] /\ gc'[c].pc = "done" =>
               Ready(gc'[c].name, gc'[c].session, tasks', shaken')
          /\ gc[c].pc = "handshake" /\ gc'[c].pc = "failed" =>
               clients' = clients]_vars

\* One call has failed in its handshake and its identity has no cache
\* entry, while another call has returned the session cached for its own.
C22_Witness ==
  \E c, d \in Callers :
    /\ HandshakeFailed(c)
    /\ gc[c].name \notin DOMAIN clients
    /\ gc[d].pc = "done"
    /\ gc[d].name \in DOMAIN clients
    /\ clients[gc[d].name] = gc[d].session


(***************************************************************************)
(* The bridge's background tasks (SpecTasks).                              *)
(***************************************************************************)
\* The identity n has a cached session whose background task has failed.
CachedTaskFailed(n) == n \in DOMAIN clients /\ tasks[n][clients[n]] = "failed"

\* A task has failed in this step.
TaskFailure == \E n \in Identities : Failed(tasks'[n]) > Failed(tasks[n])

\* The failure of a task is only logged: the step changes neither the cache
\* nor the task table and starts nothing.
OnlyLogged ==
  TaskFailure => clients' = clients /\ client_tasks' = client_tasks /\ made' = made

\* No task is started for n and its cache entry is not removed.
NotRestarted(n) ==
  /\ n \in DOMAIN clients'
  /\ made'[n] = made[n]
  /\ Len(tasks'[n]) = Len(tasks[n])
  /\ tasks'[n][clients[n]] = "failed"

\* The cache entry of n is the same session and a call for n that ends in
\* this step returns it.
SameSession(n) ==
  /\ clients'[n] = clients[n]
  /\ \A c \in Callers :
       gc'[c] # gc[c] /\ gc'[c].name = n /\ gc'[c].pc = "done" =>
         gc'[c].session = clients[n]

\* C23: when the background task of a cached session fails, the failure is
\* only logged; the task is not restarted, the cached session is neither
\* evicted nor replaced, and every later get_client call for the identity
\* returns that same session.
C23_FailedSessionKept ==
  [][/\ OnlyLogged
     /\ \A n \in Identities :
          CachedTaskFailed(n) => NotRestarted(n) /\ SameSession(n)]_vars

\* C23 as amended: the same, except that a get_client call for the identity
\* that missed the cache before the session was stored and is still in its
\* handshake replaces the session when it ends; with no such call in flight
\* the session stays and is the one returned.
C23_FailedSessionKeptWhenSettled ==
  [][/\ OnlyLogged
     /\ \A n \in Identities :
          CachedTaskFailed(n) =>
            /\ NotRestarted(n)
            /\ ~InFlight(n) => SameSession(n)]_vars

\* The task of the cached session has failed, no call is in flight, and a
\* call has found that session in the cache.
C23_Witness ==
  \E c \in Callers :
    /\ gc[c].pc = "done"
    /\ gc[c].hit
    /\ CachedTaskFailed(gc[c].name)
    /\ ~InFlight(gc[c].name)
    /\ gc[c].session = clients[gc[c].name]

\* A task that has been started is never stopped: it runs until it fails.
NoTaskStopped ==
  \A n \in Identities : \A k \in 1..Len(tasks[n]) :
    /\ k <= Len(tasks'[n])
    /\ tasks'[n][k] = tasks[n][k] \/ tasks'[n][k] = "failed"

\* C27: every identity with a cached session has a registered task; a
\* get_client call whose handshake fails leaves its task registered and as
\* it was, with nothing cached; a get_client that starts a task registers it
\* in place of the identity's earlier one, which is not stopped.
C27_CachedImpliesTask ==
  [][/\ DOMAIN clients' \subseteq DOMAIN client_tasks'
     /\ NoTaskStopped
     /\ \A c \in Callers :
          gc[c].pc = "handshake" /\ gc'[c].pc = "failed" =>
            /\ client_tasks' = client_tasks
            /\ tasks' = tasks
            /\ clients' = clients
     /\ \A n \in Identities :
          made'[n] # made[n] =>
            /\ client_tasks'[n] = made'[n]
            /\ Len(tasks'[n]) = made'[n]
            /\ tasks'[n][made'[n]] = "running"]_vars

\* After a failed handshake the identity has a registered task and no cached
\* session: its second task is the registered one and the first still runs.
C27_Witness ==
  \E c \in Callers :
    /\ HandshakeFailed(c)
    /\ gc[c].name \in DOMAIN client_tasks
    /\ gc[c].name \notin DOMAIN clients
    /\ client_tasks[gc[c].name] = 2
    /\ tasks[gc[c].name][1] = "running"
    /\ tasks[gc[c].name][2] = "running"


(***************************************************************************)
(* The dispatcher's routing table (SpecBatch).                             *)
(***************************************************************************)
Requests(msgs) == SelectSeq(msgs, IsRequest)

HasError(r) == "error" \in DOMAIN r /\ "result" \notin DOMAIN r

HasResult(r, val) ==
  "result" \in DOMAIN r /\ "error" \notin DOMAIN r /\ r.result.val = val

\* The reply r is the one the table gives the request m, the provider having
\* the handlers hs.
RoutedReply(hs, m, r) ==
  /\ r.id = m.id
  /\ m.method \notin Methods => HasError(r) /\ r.error.code = MethodNotFound
  /\ m.method = "ping" => HasResult(r, "{}")
  /\ m.method \in ListMethods /\ HandlerOf(m.method) \notin hs => HasResult(r, "[]")
  /\ m.method \in CallMethods /\ HandlerOf(m.method) \notin hs => HasError(r)

\* The requests reqs have one reply each in rs, in order, by the table, and
\* a provider handler was invoked only for a request whose method names one
\* that the provider has.
Routed(hs, reqs, rs) ==
  /\ Len(rs) = Len(reqs)
  /\ \A k \in 1..Len(reqs) : RoutedReply(hs, reqs[k], rs[k])
  /\ \A j \in 1..Len(calls) :
       /\ calls[j].at \in 1..Len(reqs)
       /\ calls[j].op = HandlerOf(reqs[calls[j].at].method)
       /\ calls[j].op \in hs

\* C24: every request of a batch is answered by its method alone: any
\* method outside the table (a missing one too) gets one error reply with
\* code -32601 and no handler is invoked, 'ping' an empty result, a list
\* method without handler an empty list, a call, read or get method without
\* handler an error reply.
C24_RoutedByMethod ==
  McpReturned =>
    Routed(builtins_handlers, Requests(event.messages), ReturnedResponses)

\* The same of the list the dispatcher is building: the requests consumed so
\* far are answered by the table.
RoutedSoFar ==
  event.action \in McpActions /\ pc \in {"loop", "returned"} =>
    Routed(builtins_handlers, Requests(SubSeq(event.messages, 1, idx)), responses)


(***************************************************************************)
(* The two forms of registration (SpecRegistration).                       *)
(***************************************************************************)
\* The entry the direct form register_*(name, options, handler) stores.
DirectEntry(r) ==
  IF r.kind = "resource"
  THEN [name |-> r.name, template |-> "tpl://" \o r.name, options |-> r.options,
        handler |-> r.handler]
  ELSE [name |-> r.name, options |-> r.options, handler |-> r.handler]

\* The registry that the registrations of a log give when each is made in
\* the direct form, at the place in the order where its handler was given.
RECURSIVE AllDirect(_)
AllDirect(log) ==
  IF log = <<>> THEN <<>>
  ELSE LET pre == AllDirect(SubSeq(log, 1, Len(log) - 1))
           e   == DirectEntry(log[Len(log)])
       IN IF \E i \in 1..Len(pre) : pre[i].name = e.name
          THEN [i \in 1..Len(pre) |-> IF pre[i].name = e.name THEN e ELSE pre[i]]
          ELSE Append(pre, e)

\* C25: the decorator form leaves the registry as the direct form does: the
\* same entries under the same names, with the same options and handlers,
\* in the same order; a decorator whose handler is not attached yet has
\* stored nothing.
C25_FormsAgree ==
  /\ tools = AllDirect(LogOf("tool"))
  /\ resources = AllDirect(LogOf("resource"))
  /\ prompts = AllDirect(LogOf("prompt"))

\* A tool registered through its decorator stands before one registered
\* directly, and a decorator for a name that has no entry is pending.
C25_Witness ==
  /\ Len(reg_log) >= 2
  /\ reg_log[1].kind = "tool" /\ reg_log[1].form = "decorator"
  /\ reg_log[2].kind = "tool" /\ reg_log[2].form = "direct"
  /\ Len(tools) = 2
  /\ tools[1].name = reg_log[1].name
  /\ \E d \in pending : d.kind = "resource" /\ ~HasKey(resources, d.name)


(***************************************************************************)
(* The hook actions' arguments and the failed load (Spec).                 *)
(***************************************************************************)
HookActionRan ==
  pc = "returned" /\ event.action \in {"oauth", "callbacks"} /\ args_read # {}

\* C26: what get_args() gives the provider's code during an 'oauth' or a
\* 'callbacks' action is the empty mapping: not the args of the event, not
\* the args an earlier invocation has set.
C26_HookActionsLoadWithNoArgs ==
  HookActionRan => args_read = {EmptyMap}

\* An oauth action whose event carries arguments has run in a process where
\* a get_client call had stored arguments before.
C26_Witness ==
  /\ HookActionRan
  /\ event.action = "oauth"
  /\ event.args = "A1"
  /\ gc[1].pc = "done"
  /\ gc[1].args = "A2"
  /\ get_args = EmptyMap
  /\ args_read = {EmptyMap}

\* The result of an invocation that ended before load_user_server was called.
EndedBeforeLoad(r) ==
  \/ "error" \notin DOMAIN r
  \/ r.error.code \in {"handler_error", "unknown_action"}
  \/ r.error.code = "mcp_error" /\ r.error.message = "bad args"

\* The arguments the invocation of the event e gives load_user_server.
LoadArgs(e) ==
  IF e.action \in {"oauth", "callbacks"} THEN EmptyMap ELSE EventArgs(e)

\* This step is an invocation of a provider that cannot be loaded, and the
\* invocation has called load_user_server.
FailedLoadStep ==
  /\ CanInvoke
  /\ invVars' # invVars \/ exec_count' # exec_count
  /\ user_module.exec = "raises" \/ ~user_module.server
  /\ ~EndedBeforeLoad(result')

\* C28: an invocation whose load fails (the module raises, or leaves no
\* server object) returns success = false with its args already stored; a
\* module that raised is not marked as loaded and is executed again by
\* every later invocation.
C28_FailedLoadNotRemembered ==
  [][FailedLoadStep =>
       /\ pc' = "returned"
       /\ ~result'.success
       /\ builtins_server' = None
       /\ current_args' = resolve(current_args, LoadArgs(event'))
       /\ user_module.exec = "raises" =>
            ~user_module_loaded' /\ exec_count' = exec_count + 1]_vars

\* The module has raised in two invocations; the second one has failed with
\* its own args stored.
C28_Witness ==
  /\ pc = "returned"
  /\ user_module.exec = "raises"
  /\ exec_count = 2
  /\ ~user_module_loaded
  /\ ~result.success
  /\ event.args = "A2"
  /\ get_args = "A2"

====
